---- MODULE Spec2Model ----
(***************************************************************************)
(* Model of the AI-suggestion pipeline of smart-todo-ai:                   *)
(*   backend/apps/ai_integration/services.py  (class AIService)            *)
(*   backend/apps/tasks/api_view.py           (TaskViewSet actions)        *)
(*   backend/apps/tasks/models.py, serializers.py  (Task, Category)        *)
(*   backend/apps/context/api_view.py         (ContextEntryViewSet)        *)
(*                                                                         *)
(* Text is modelled as a sequence of one-character strings, so that the    *)
(* regular expressions, strip(), replace(), split() and json.loads() of    *)
(* the source are computed character by character.  A Python call yields   *)
(* either a returned value or a raised exception.                          *)
(***************************************************************************)
EXTENDS Integers, Sequences, FiniteSets, TLC

\* call:     the invocation under way: the operation and its arguments
\* provider: the outcomes of the HTTP POSTs the provider will serve, in order
\* result:   Pending until the invocation has run, then what it produced
\* db:       the rows of the relational store (tasks, categories, context
\*           entries) and its id counters
\* procs:    the requests that run concurrently against the store, each
\*           with its position and its in-memory model instances
VARIABLES call, provider, result, db, procs

vars == <<call, provider, result, db, procs>>

(***************************************************************************)
(* Bounds                                                                  *)
(***************************************************************************)
\* A provider reply text is a concatenation of at most MaxPieces pieces.
MaxPieces == 3

(***************************************************************************)
(* Characters and text helpers                                             *)
(***************************************************************************)
NL == "\n"

Digits == {"0", "1", "2", "3", "4", "5", "6", "7", "8", "9"}

\* str.isspace() over the characters that occur in the model
Whitespace == {" ", NL}

DigitVal(c) ==
  CASE c = "0" -> 0 [] c = "1" -> 1 [] c = "2" -> 2 [] c = "3" -> 3
    [] c = "4" -> 4 [] c = "5" -> 5 [] c = "6" -> 6 [] c = "7" -> 7
    [] c = "8" -> 8 [] c = "9" -> 9

RECURSIVE Pow10(_)
Pow10(k) == IF k = 0 THEN 1 ELSE 10 * Pow10(k - 1)

\* int() of a run of decimal digits
RECURSIVE DigitsToInt(_)
DigitsToInt(s) ==
  IF s = <<>> THEN 0
  ELSE 10 * DigitsToInt(SubSeq(s, 1, Len(s) - 1)) + DigitVal(s[Len(s)])

\* str.lstrip() / str.rstrip() / str.strip()
RECURSIVE LStrip(_)
LStrip(s) ==
  IF s # <<>> /\ s[1] \in Whitespace THEN LStrip(Tail(s)) ELSE s

RECURSIVE RStrip(_)
RStrip(s) ==
  IF s # <<>> /\ s[Len(s)] \in Whitespace
  THEN RStrip(SubSeq(s, 1, Len(s) - 1)) ELSE s

Strip(s) == RStrip(LStrip(s))

\* first index >= i with s[i] \in set, or Len(s) + 1
RECURSIVE FindFrom(_, _, _)
FindFrom(s, i, set) ==
  IF i > Len(s) THEN Len(s) + 1
  ELSE IF s[i] \in set THEN i ELSE FindFrom(s, i + 1, set)

\* first index >= i with s[i] \notin set, or Len(s) + 1
RECURSIVE SkipFrom(_, _, _)
SkipFrom(s, i, set) ==
  IF i > Len(s) THEN Len(s) + 1
  ELSE IF s[i] \in set THEN SkipFrom(s, i + 1, set) ELSE i

(***************************************************************************)
(* Python values and call outcomes                                         *)
(***************************************************************************)
PyNone == [t |-> "None"]
PyStr(s) == [t |-> "str", v |-> s]
PyList(l) == [t |-> "list", v |-> l]
\* a number n/d with d a power of ten; trailing zeros of the fraction removed
PyFloat(n, d) == [t |-> "float", n |-> n, d |-> d]
PyInt(n) == [t |-> "int", n |-> n, d |-> 1]

Return(v) == [kind |-> "return", val |-> v]
Raise(e) == [kind |-> "raise", exc |-> e]

(***************************************************************************)
(* The provider: the outcome of one HTTP POST                              *)
(***************************************************************************)
\* A first choice of the body: {"message": {"content": <text>}} or a
\* structural deviation of it.
Choice(hasMessage, hasContent, content) ==
  [hasMessage |-> hasMessage, hasContent |-> hasContent, content |-> content]

\* The parsed JSON object of a 2xx reply: whether it has keys other than
\* "choices", whether it has the key "choices", and the choices array.
Body(other, hasChoices, choices) ==
  [other |-> other, hasChoices |-> hasChoices, choices |-> choices]

\* "conn_error": requests.post raised; "http_error": status outside 2xx
HttpFailure(status) == [status |-> status, body |-> Body(FALSE, FALSE, <<>>)]
HttpOk(body) == [status |-> "ok", body |-> body]

\* A well-formed reply carrying the text c
GoodReply(c) == HttpOk(Body(FALSE, TRUE, <<Choice(TRUE, TRUE, c)>>))

\* bool(dict): a dict is truthy iff it has a key
Truthy(body) == body.other \/ body.hasChoices

\* AIService._make_request: the parsed body, or None on RequestException
MakeRequest(http) ==
  IF http.status = "ok" THEN [none |-> FALSE, body |-> http.body]
  ELSE [none |-> TRUE, body |-> http.body]

\* `if response:` in the callers of _make_request
ResponseTruthy(response) == ~response.none /\ Truthy(response.body)

\* AIService._extract_content
ExtractContent(response) ==
  IF ResponseTruthy(response) /\ response.body.hasChoices
     /\ Len(response.body.choices) > 0
  THEN LET c == response.body.choices[1] IN
       IF ~c.hasMessage \/ ~c.hasContent THEN Raise("KeyError")
       ELSE Return(PyStr(Strip(c.content)))
  ELSE Return(PyNone)

\* Every distinct outcome of one POST whose reply text, if any, is in T.
\* (A 2xx reply whose body is not a JSON object is not among them.)
Bodies(T) ==
  { Body(FALSE, FALSE, <<>>),                         \* {}
    Body(TRUE, FALSE, <<>>),                          \* {"error": ...}
    Body(FALSE, TRUE, <<>>),                          \* {"choices": []}
    Body(TRUE, TRUE, <<>>),                           \* {"choices": [], "id": ...}
    Body(FALSE, TRUE, <<Choice(FALSE, FALSE, <<>>)>>),  \* {"choices": [{}]}
    Body(FALSE, TRUE, <<Choice(TRUE, FALSE, <<>>)>>) }  \* {"choices": [{"message": {}}]}
  \cup { Body(FALSE, TRUE, <<Choice(TRUE, TRUE, c)>>) : c \in T }

HttpOutcomes(T) ==
  { HttpFailure("conn_error"), HttpFailure("http_error") }
  \cup { HttpOk(b) : b \in Bodies(T) }

\* The provider cannot be reached
Unreachable == HttpFailure("conn_error")

\* Concatenations of at most n pieces of P
RECURSIVE Texts(_, _)
Texts(P, n) ==
  IF n = 0 THEN { <<>> }
  ELSE LET T == Texts(P, n - 1) IN T \cup { t \o p : t \in T, p \in P }

(***************************************************************************)
(* AIService.get_task_priority_score                                       *)
(***************************************************************************)
\* re.findall(r'\d+\.?\d*', content)[0] as the pair of index bounds
\* <<first, last>> of the match, or <<0, 0>> when there is no match
FirstNumber(s) ==
  LET i == FindFrom(s, 1, Digits) IN
  IF i > Len(s) THEN <<0, 0>>
  ELSE LET j == SkipFrom(s, i, Digits) IN
       IF j <= Len(s) /\ s[j] = "."
       THEN <<i, SkipFrom(s, j + 1, Digits) - 1>>
       ELSE <<i, j - 1>>

\* n/d without the trailing zeros of the fraction
RECURSIVE Normalize(_, _)
Normalize(n, d) ==
  IF d > 1 /\ n % 10 = 0 THEN Normalize(n \div 10, d \div 10)
  ELSE PyFloat(n, d)

\* float(m) for m matching \d+\.?\d*
ToFloat(m) ==
  LET dot  == FindFrom(m, 1, {"."})
      ip   == SubSeq(m, 1, dot - 1)
      fp   == SubSeq(m, dot + 1, Len(m))
  IN Normalize(DigitsToInt(ip) * Pow10(Len(fp)) + DigitsToInt(fp),
               Pow10(Len(fp)))

\* a < b for numbers
NumLess(a, b) == a.n * b.d < b.n * a.d

\* Python's min(a, b) and max(a, b): a unless b is strictly smaller/larger
PyMin(a, b) == IF NumLess(b, a) THEN b ELSE a
PyMax(a, b) == IF NumLess(a, b) THEN b ELSE a

MinScore == 0
MaxScore == 100

\* max(0, min(100, score))
Clamp(score) == PyMax(PyInt(MinScore), PyMin(PyInt(MaxScore), score))

\* a scoring without the fallback of a failed request
GetTaskPriorityScoreNoFallback(http) ==
  LET response == MakeRequest(http) IN
  IF response.none THEN Raise("ConnectionError")
  ELSE IF ResponseTruthy(response)
  THEN LET content == ExtractContent(response) IN
       IF content.kind = "raise" THEN content
       ELSE IF content.val = PyNone THEN Raise("TypeError")
       ELSE LET m == FirstNumber(content.val.v) IN
            IF m # <<0, 0>>
            THEN Return(Clamp(ToFloat(SubSeq(content.val.v, m[1], m[2]))))
            ELSE Return(PyFloat(0, 1))
  ELSE Return(PyFloat(0, 1))

GetTaskPriorityScore(http) ==
  LET response == MakeRequest(http) IN
  IF ResponseTruthy(response)
  THEN LET content == ExtractContent(response) IN
       IF content.kind = "raise" THEN content
       ELSE IF content.val = PyNone THEN Raise("TypeError")   \* re.findall(.., None)
       ELSE LET m == FirstNumber(content.val.v) IN
            IF m # <<0, 0>>
            THEN Return(Clamp(ToFloat(SubSeq(content.val.v, m[1], m[2]))))
            ELSE Return(PyFloat(0, 1))
  ELSE Return(PyFloat(0, 1))

(***************************************************************************)
(* Calendar dates (datetime.date, timedelta, strptime)                     *)
(***************************************************************************)
Date(y, m, d) == [y |-> y, m |-> m, d |-> d]

IsLeap(y) == (y % 4 = 0 /\ y % 100 # 0) \/ y % 400 = 0

DaysInMonth(y, m) ==
  IF m = 2 THEN (IF IsLeap(y) THEN 29 ELSE 28)
  ELSE IF m \in {4, 6, 9, 11} THEN 30 ELSE 31

\* the day after dt
NextDay(dt) ==
  IF dt.d < DaysInMonth(dt.y, dt.m) THEN Date(dt.y, dt.m, dt.d + 1)
  ELSE IF dt.m < 12 THEN Date(dt.y, dt.m + 1, 1)
  ELSE Date(dt.y + 1, 1, 1)

\* dt + timedelta(days=n)
RECURSIVE AddDays(_, _)
AddDays(dt, n) == IF n = 0 THEN dt ELSE AddDays(NextDay(dt), n - 1)

\* an aware datetime; strptime('%Y-%m-%d') and datetime.min.time() both
\* give 00:00:00
PyDatetime(dt, h, mi, s) ==
  [t |-> "datetime", date |-> dt, h |-> h, mi |-> mi, s |-> s]

DayStart(dt) == PyDatetime(dt, 0, 0, 0)

(***************************************************************************)
(* AIService.suggest_deadline                                              *)
(***************************************************************************)
\* re.match(r'\d{4}-\d{2}-\d{2}', s[i-1:]) is not None
DatePatternAt(s, i) ==
  /\ i + 9 <= Len(s)
  /\ \A k \in {0, 1, 2, 3, 5, 6, 8, 9} : s[i + k] \in Digits
  /\ s[i + 4] = "-"
  /\ s[i + 7] = "-"

\* a search that keeps the last match instead of the first
RECURSIVE DateSearchLast(_, _)
DateSearchLast(s, i) ==
  IF i + 9 > Len(s) THEN 0
  ELSE LET r == DateSearchLast(s, i + 1) IN
       IF r # 0 THEN r ELSE IF DatePatternAt(s, i) THEN i ELSE 0

\* re.search(r'\d{4}-\d{2}-\d{2}', s): the start of the leftmost match at or
\* after i, or 0
RECURSIVE DateSearch(_, _)
DateSearch(s, i) ==
  IF i + 9 > Len(s) THEN 0
  ELSE IF DatePatternAt(s, i) THEN i ELSE DateSearch(s, i + 1)

\* datetime.strptime(m, '%Y-%m-%d') for m matching the pattern: the date,
\* or ValueError when it is not a calendar date (ok = FALSE)
Strptime(m) ==
  LET y == DigitsToInt(SubSeq(m, 1, 4))
      mo == DigitsToInt(SubSeq(m, 6, 7))
      d == DigitsToInt(SubSeq(m, 9, 10))
  IN IF y >= 1 /\ mo >= 1 /\ mo <= 12 /\ d >= 1 /\ d <= DaysInMonth(y, mo)
     THEN [ok |-> TRUE, date |-> Date(y, mo, d)]
     ELSE [ok |-> FALSE, date |-> Date(1, 1, 1)]

\* timedelta(days=7) of the fallback
FallbackDays == 7

SuggestDeadline(current_date, http) ==
  LET response == MakeRequest(http)
      fallback == Return(DayStart(AddDays(current_date, FallbackDays)))
  IN
  IF ResponseTruthy(response)
  THEN LET content == ExtractContent(response) IN
       IF content.kind = "raise" THEN content
       ELSE IF content.val = PyNone THEN Raise("TypeError")   \* re.search(.., None)
       ELSE LET i == DateSearch(content.val.v, 1) IN
            IF i # 0
            THEN LET p == Strptime(SubSeq(content.val.v, i, i + 9)) IN
                 IF p.ok THEN Return(DayStart(p.date)) ELSE fallback
            ELSE fallback
  ELSE fallback

(***************************************************************************)
(* AIService.suggest_categories_and_tags                                   *)
(***************************************************************************)
\* str.replace(old, new) for a one-character old and a new of any length
RECURSIVE Replace(_, _, _)
Replace(s, old, new) ==
  IF s = <<>> THEN <<>>
  ELSE (IF s[1] = old THEN new ELSE <<s[1]>>) \o Replace(Tail(s), old, new)

\* str.split(sep) for a one-character sep: always at least one piece
RECURSIVE Split(_, _)
Split(s, sep) ==
  LET i == FindFrom(s, 1, {sep}) IN
  IF i > Len(s) THEN <<s>>
  ELSE <<SubSeq(s, 1, i - 1)>> \o Split(SubSeq(s, i + 1, Len(s)), sep)

\* [tag.strip() for tag in pieces if tag.strip()]
RECURSIVE StripAndFilter(_)
StripAndFilter(pieces) ==
  IF pieces = <<>> THEN <<>>
  ELSE LET tag == Strip(pieces[1]) IN
       (IF tag # <<>> THEN <<PyStr(tag)>> ELSE <<>>)
       \o StripAndFilter(Tail(pieces))

\* a cleaning that turns periods into separators instead of deleting them
CleanedContentPeriodAsComma(content) ==
  Strip(Replace(Replace(content, NL, <<",">>), ".", <<",">>))

\* content.replace('\n', ',').replace('.', '').strip()
CleanedContent(content) ==
  Strip(Replace(Replace(content, NL, <<",">>), ".", <<>>))

SuggestCategoriesAndTags(http) ==
  LET response == MakeRequest(http) IN
  IF ResponseTruthy(response)
  THEN LET content == ExtractContent(response) IN
       IF content.kind = "raise" THEN content
       ELSE IF content.val = PyNone THEN Raise("AttributeError")  \* None.replace
       ELSE Return(PyList(StripAndFilter(
                     Split(CleanedContent(content.val.v), ","))))
  ELSE Return(PyList(<<>>))

(***************************************************************************)
(* AIService.enhance_task_description                                      *)
(***************************************************************************)
EnhanceTaskDescription(task_description, http) ==
  LET response == MakeRequest(http) IN
  IF ResponseTruthy(response) THEN ExtractContent(response)
  ELSE Return(PyStr(task_description))

(***************************************************************************)
(* json.loads, for texts over the characters { } [ ] : , " space newline,  *)
(* the digits and letters: objects, arrays, strings without escapes,       *)
(* non-negative integers and null.  (No text of the model contains         *)
(* a backslash, '.', '-', an exponent, true, false, NaN or Infinity.)      *)
(***************************************************************************)
PyDict(pairs) == [t |-> "dict", v |-> pairs]

Quote == "\""

NullWord == <<"n", "u", "l", "l">>

ParseFail == [ok |-> FALSE, val |-> PyNone, end |-> 0]
ParseOk(v, e) == [ok |-> TRUE, val |-> v, end |-> e]

\* json.decoder.WHITESPACE.match(s, i).end()
SkipWs(s, i) == SkipFrom(s, i, Whitespace)

\* dict(pairs): a repeated key keeps its first position and takes the
\* last value
RECURSIVE DictPut(_, _, _)
DictPut(pairs, k, v) ==
  IF pairs = <<>> THEN << <<k, v>> >>
  ELSE IF pairs[1][1] = k THEN << <<k, v>> >> \o Tail(pairs)
  ELSE <<pairs[1]>> \o DictPut(Tail(pairs), k, v)

\* scanstring(s, i): s[i-1] is the opening quote; a control character
\* (newline) inside the string is an error under strict parsing
ParseString(s, i) ==
  LET j == FindFrom(s, i, {Quote, NL}) IN
  IF j > Len(s) \/ s[j] = NL THEN ParseFail
  ELSE ParseOk(PyStr(SubSeq(s, i, j - 1)), j + 1)

\* the number at s[i]: (0|[1-9]\d*)
ParseNumber(s, i) ==
  LET e == IF s[i] = "0" THEN i + 1 ELSE SkipFrom(s, i, Digits) IN
  ParseOk(PyInt(DigitsToInt(SubSeq(s, i, e - 1))), e)

RECURSIVE ParseValue(_, _)
RECURSIVE ParseItems(_, _, _)
RECURSIVE ParseMembers(_, _, _)

\* JSONArray after the first value position j
ParseItems(s, j, acc) ==
  LET v == ParseValue(s, j) IN
  IF ~v.ok THEN ParseFail
  ELSE LET e == SkipWs(s, v.end) IN
       IF e > Len(s) THEN ParseFail
       ELSE IF s[e] = "]" THEN ParseOk(PyList(Append(acc, v.val)), e + 1)
       ELSE IF s[e] = ","
            THEN ParseItems(s, SkipWs(s, e + 1), Append(acc, v.val))
       ELSE ParseFail

\* JSONObject at the position j of a member's key
ParseMembers(s, j, acc) ==
  IF j > Len(s) \/ s[j] # Quote THEN ParseFail
  ELSE LET key == ParseString(s, j + 1) IN
       IF ~key.ok THEN ParseFail
       ELSE LET c == SkipWs(s, key.end) IN
            IF c > Len(s) \/ s[c] # ":" THEN ParseFail
            ELSE LET v == ParseValue(s, SkipWs(s, c + 1)) IN
                 IF ~v.ok THEN ParseFail
                 ELSE LET e == SkipWs(s, v.end)
                          acc2 == DictPut(acc, key.val.v, v.val)
                      IN IF e > Len(s) THEN ParseFail
                         ELSE IF s[e] = "}" THEN ParseOk(PyDict(acc2), e + 1)
                         ELSE IF s[e] = ","
                              THEN ParseMembers(s, SkipWs(s, e + 1), acc2)
                         ELSE ParseFail

\* scan_once(s, i)
ParseValue(s, i) ==
  IF i > Len(s) THEN ParseFail
  ELSE IF s[i] = Quote THEN ParseString(s, i + 1)
  ELSE IF s[i] = "{"
       THEN LET j == SkipWs(s, i + 1) IN
            IF j <= Len(s) /\ s[j] = "}" THEN ParseOk(PyDict(<<>>), j + 1)
            ELSE ParseMembers(s, j, <<>>)
  ELSE IF s[i] = "["
       THEN LET j == SkipWs(s, i + 1) IN
            IF j <= Len(s) /\ s[j] = "]" THEN ParseOk(PyList(<<>>), j + 1)
            ELSE ParseItems(s, j, <<>>)
  ELSE IF s[i] = "n"
       THEN IF i + 3 <= Len(s) /\ SubSeq(s, i, i + 3) = NullWord
            THEN ParseOk(PyNone, i + 4) ELSE ParseFail
  ELSE IF s[i] \in Digits THEN ParseNumber(s, i)
  ELSE ParseFail

\* json.loads(s): ok = FALSE stands for JSONDecodeError
JsonLoads(s) ==
  LET v == ParseValue(s, SkipWs(s, 1)) IN
  IF ~v.ok THEN ParseFail
  ELSE IF SkipWs(s, v.end) # Len(s) + 1 THEN ParseFail   \* Extra data
  ELSE v

(***************************************************************************)
(* AIService.analyze_context                                               *)
(***************************************************************************)
ErrorKey == <<"e", "r", "r", "o", "r">>
RawResponseKey ==
  <<"r", "a", "w", "_", "r", "e", "s", "p", "o", "n", "s", "e">>
FormatErrorText ==
  <<"A", "I", " ", "r", "e", "s", "p", "o", "n", "s", "e", " ", "f", "o", "r", "m", "a", "t">> \o
  <<" ", "e", "r", "r", "o", "r">>

\* {"error": "AI response format error", "raw_response": content}
FormatError(content) ==
  PyDict(<< <<ErrorKey, PyStr(FormatErrorText)>>,
            <<RawResponseKey, PyStr(content)>> >>)

AnalyzeContext(http) ==
  LET response == MakeRequest(http) IN
  IF ResponseTruthy(response)
  THEN LET content == ExtractContent(response) IN
       IF content.kind = "raise" THEN content
       ELSE IF content.val = PyNone THEN Raise("TypeError")   \* json.loads(None)
       ELSE LET parsed == JsonLoads(content.val.v) IN
            IF parsed.ok THEN Return(parsed.val)
            ELSE Return(FormatError(content.val.v))
  ELSE Return(PyNone)

(***************************************************************************)
(* TaskViewSet.get_ai_suggestions_for_new_task                             *)
(***************************************************************************)
\* bool(v)
PyTruthy(v) ==
  CASE v.t = "None" -> FALSE
    [] v.t \in {"str", "list", "dict"} -> v.v # <<>>
    [] v.t \in {"int", "float"} -> v.n # 0
    [] OTHER -> TRUE

\* a >= b for numbers
NumGeq(a, b) == ~NumLess(a, b)

DisplayHigh == 70
DisplayMedium == 40

\* a display that follows the bands of the persisted label
SuggestedPriorityAsPersisted(priority_score) ==
  IF NumGeq(priority_score, PyInt(80)) THEN "urgent"
  ELSE IF NumGeq(priority_score, PyInt(60)) THEN "high"
  ELSE IF NumGeq(priority_score, PyInt(30)) THEN "medium"
  ELSE "low"

\* the display policy of the suggestion responses
SuggestedPriority(priority_score) ==
  IF NumGeq(priority_score, PyInt(DisplayHigh)) THEN "high"
  ELSE IF NumGeq(priority_score, PyInt(DisplayMedium)) THEN "medium"
  ELSE "low"

\* str(n).zfill(w) for 0 <= n < 10^w
RECURSIVE ZeroPad(_, _)
ZeroPad(n, w) ==
  IF w = 0 THEN <<>>
  ELSE ZeroPad(n \div 10, w - 1)
       \o <<CHOOSE c \in Digits : DigitVal(c) = n % 10>>

\* datetime.isoformat() up to the seconds; the UTC offset of the configured
\* time zone, which follows it, is left out
IsoFormat(dt) ==
  ZeroPad(dt.date.y, 4) \o <<"-">> \o ZeroPad(dt.date.m, 2) \o <<"-">>
  \o ZeroPad(dt.date.d, 2) \o <<"T">> \o ZeroPad(dt.h, 2) \o <<":">>
  \o ZeroPad(dt.mi, 2) \o <<":">> \o ZeroPad(dt.s, 2)

\* an unhandled exception becomes a 500 response
ServerError(exc, locals, n) ==
  [kind |-> "response", status |-> 500, exc |-> exc,
   locals |-> locals, requests |-> n]

\* The handler after the title check.  p: the outcomes of the four POSTs.
\* locals holds what the four operations returned; requests counts the POSTs.
NewTaskSuggestions(title, description, today, p) ==
  LET priority == GetTaskPriorityScore(p[1]) IN
  IF priority.kind = "raise" THEN ServerError(priority.exc, <<>>, 1)
  ELSE
  LET l1 == "priority_score" :> priority.val
      d1 == ("suggested_priority_score" :> priority.val)
            @@ ("suggested_priority" :> SuggestedPriority(priority.val))
      deadline == SuggestDeadline(today, p[2])
  IN
  IF deadline.kind = "raise" THEN ServerError(deadline.exc, l1, 2)
  ELSE
  LET l2 == l1 @@ ("suggested_deadline" :> deadline.val)
      d2 == IF PyTruthy(deadline.val)
            THEN d1 @@ ("suggested_deadline" :> PyStr(IsoFormat(deadline.val)))
            ELSE d1
      categories == SuggestCategoriesAndTags(p[3])
  IN
  IF categories.kind = "raise" THEN ServerError(categories.exc, l2, 3)
  ELSE
  LET l3 == l2 @@ ("suggested_categories" :> categories.val)
      d3 == IF PyTruthy(categories.val)
            THEN d2 @@ ("suggested_categories" :> categories.val)
            ELSE d2
      enhanced == EnhanceTaskDescription(description, p[4])
  IN
  IF enhanced.kind = "raise" THEN ServerError(enhanced.exc, l3, 4)
  ELSE
  LET l4 == l3 @@ ("enhanced_description" :> enhanced.val)
      d4 == IF PyTruthy(enhanced.val)
            THEN d3 @@ ("enhanced_description" :> enhanced.val)
            ELSE d3
  IN [kind |-> "response", status |-> 200,
      data |-> d4 @@ ("message" :> "AI suggestions generated for new task."),
      locals |-> l4, requests |-> 4]

\* the handler without its title check
GetAiSuggestionsForNewTaskUnchecked(title, description, today, p) ==
  NewTaskSuggestions(title, description, today, p)

GetAiSuggestionsForNewTask(title, description, today, p) ==
  IF title = <<>>
  THEN [kind |-> "response", status |-> 400,
        data |-> ("error" :> "Title is required for AI suggestions."),
        locals |-> <<>>, requests |-> 0]
  ELSE NewTaskSuggestions(title, description, today, p)

(***************************************************************************)
(* The relational store and the model instances (tasks/models.py).         *)
(* A row lives in db; a model instance is a copy of a row held in memory   *)
(* by one request, and save() writes the copy back.                        *)
(***************************************************************************)
\* DecimalField(max_digits=5, decimal_places=2).  Every score of the model
\* has at most two decimals and fewer than four integer digits; for those
\* the stored value is the score itself.
Decimal(n, d) == [t |-> "Decimal", n |-> n, d |-> d]

ToDecimal(v) == Decimal(v.n, v.d)

\* the instance standing for "no category" (None); real ids start at 1
NoCategory == [id |-> 0, name |-> <<>>, usage_frequency |-> 0]

EmptyDb ==
  [tasks |-> <<>>, categories |-> <<>>, entries |-> <<>>,
   nextTask |-> 1, nextCategory |-> 1, nextEntry |-> 1]

\* f with the key k bound to v
Put(f, k, v) == [x \in (DOMAIN f) \cup {k} |-> IF x = k THEN v ELSE f[x]]

\* f without the key k
Drop(f, k) == [x \in (DOMAIN f) \ {k} |-> f[x]]

\* Category.objects.get(pk=id), and the lazy load of task.category
LoadCategory(d, id) ==
  IF id = 0 THEN NoCategory
  ELSE [id |-> id, name |-> d.categories[id].name,
        usage_frequency |-> d.categories[id].usage_frequency]

\* Model.save() of a category instance: UPDATE of all its fields
CategorySave(d, c) ==
  [d EXCEPT !.categories =
     Put(@, c.id, [name |-> c.name, usage_frequency |-> c.usage_frequency])]

\* Category.increment_usage: the new store and the changed instance
IncrementUsage(d, c) ==
  LET c2 == [c EXCEPT !.usage_frequency = @ + 1] IN
  [db |-> CategorySave(d, c2), inst |-> c2]

\* a decrement without the test of the count
DecrementUsageUnguarded(d, c) ==
  LET c2 == [c EXCEPT !.usage_frequency = @ - 1] IN
  [db |-> CategorySave(d, c2), inst |-> c2]

\* Category.decrement_usage
DecrementUsage(d, c) ==
  IF c.usage_frequency > 0
  THEN LET c2 == [c EXCEPT !.usage_frequency = @ - 1] IN
       [db |-> CategorySave(d, c2), inst |-> c2]
  ELSE [db |-> d, inst |-> c]

\* Category.objects.create(name=name)
CategoryCreate(d, name) ==
  LET id == d.nextCategory IN
  [db |-> [d EXCEPT !.categories =
                      Put(@, id, [name |-> name, usage_frequency |-> 0]),
                    !.nextCategory = id + 1],
   inst |-> [id |-> id, name |-> name, usage_frequency |-> 0]]

\* Category.objects.get_or_create(name=name); name is unique
GetOrCreate(d, name) ==
  IF \E id \in DOMAIN d.categories : d.categories[id].name = name
  THEN [db |-> d,
        inst |-> LoadCategory(d, CHOOSE id \in DOMAIN d.categories :
                                   d.categories[id].name = name)]
  ELSE CategoryCreate(d, name)

\* the row of a task instance
TaskRow(t) ==
  [title |-> t.title, description |-> t.description,
   category |-> t.category.id, priority_score |-> ToDecimal(t.priority_score),
   priority |-> t.priority, deadline |-> t.deadline, status |-> t.status,
   is_ai_suggested |-> t.is_ai_suggested]

\* Task.objects.get(pk=id): an instance whose category loads from the store
LoadTask(d, id) ==
  LET r == d.tasks[id] IN
  [id |-> id, title |-> r.title, description |-> r.description,
   category |-> LoadCategory(d, r.category),
   priority_score |-> r.priority_score, priority |-> r.priority,
   deadline |-> r.deadline, status |-> r.status,
   is_ai_suggested |-> r.is_ai_suggested]

\* Task.save: the new store and the instance (its id and its category
\* instance may have changed)
TaskSave(d, t) ==
  IF t.id # 0
  THEN LET old == LoadCategory(d, d.tasks[t.id].category)      \* old_task.category
           changed == old.id # t.category.id
           d1 == IF old.id # 0 /\ changed THEN DecrementUsage(d, old).db
                 ELSE d
           inc == IF t.category.id # 0 /\ changed
                  THEN IncrementUsage(d1, t.category)
                  ELSE [db |-> d1, inst |-> t.category]
           t2 == [t EXCEPT !.category = inc.inst]
       IN [db |-> [inc.db EXCEPT !.tasks = Put(@, t.id, TaskRow(t2))],
           inst |-> t2]
  ELSE LET inc == IF t.category.id # 0 THEN IncrementUsage(d, t.category)
                  ELSE [db |-> d, inst |-> t.category]
           t2 == [t EXCEPT !.category = inc.inst, !.id = d.nextTask]
       IN [db |-> [inc.db EXCEPT !.tasks = Put(@, t2.id, TaskRow(t2)),
                                 !.nextTask = @ + 1],
           inst |-> t2]

\* Task.delete
TaskDelete(d, t) ==
  LET d1 == IF t.category.id # 0 THEN DecrementUsage(d, t.category).db
            ELSE d
  IN [d1 EXCEPT !.tasks = Drop(@, t.id)]

\* the thresholds of the persisted label
UrgentFrom == 80
HighFrom == 60
MediumFrom == 30

\* a labelling whose bands exclude their lower boundary
PersistedPriorityStrict(score) ==
  IF NumLess(PyInt(UrgentFrom), score) THEN "urgent"
  ELSE IF NumLess(PyInt(HighFrom), score) THEN "high"
  ELSE IF NumLess(PyInt(MediumFrom), score) THEN "medium"
  ELSE "low"

\* the label Task.set_ai_priority gives a score
PersistedPriority(score) ==
  IF NumGeq(score, PyInt(UrgentFrom)) THEN "urgent"
  ELSE IF NumGeq(score, PyInt(HighFrom)) THEN "high"
  ELSE IF NumGeq(score, PyInt(MediumFrom)) THEN "medium"
  ELSE "low"

\* Task.set_ai_priority
SetAiPriority(d, t, score) ==
  TaskSave(d, [t EXCEPT !.priority_score = score,
                        !.priority = PersistedPriority(score)])

\* Task.assign_category
AssignCategory(d, t, category_name) ==
  LET g == GetOrCreate(d, category_name) IN
  TaskSave(g.db, [t EXCEPT !.category = g.inst])

(***************************************************************************)
(* TaskSerializer (tasks/serializers.py).  data: the validated fields of   *)
(* the request body, a function from field names to values; a category is *)
(* submitted as the id of an existing category, or 0 for null.             *)
(***************************************************************************)
\* dict.get(k, default)
Get(data, k, default) == IF k \in DOMAIN data THEN data[k] ELSE default

\* default_deadline(): seven days after the time of the call
DefaultDeadlineDays == 7

DefaultDeadline(now) ==
  PyDatetime(AddDays(now.date, DefaultDeadlineDays), now.h, now.mi, now.s)

\* Task(**validated_data): the unsaved instance, absent fields at their
\* model defaults, `category` popped
NewTask(data, now) ==
  [id |-> 0, title |-> data["title"],
   description |-> Get(data, "description", <<>>),
   category |-> NoCategory,
   priority_score |-> Decimal(0, 1), priority |-> "medium",
   deadline |-> Get(data, "deadline", DefaultDeadline(now)),
   status |-> Get(data, "status", "pending"),
   is_ai_suggested |-> FALSE]

\* TaskSerializer.create
SerializerCreate(d, data, now) ==
  LET category_data == LoadCategory(d, Get(data, "category", 0))
      task == TaskSave(d, NewTask(data, now))              \* objects.create
  IN IF category_data.id # 0
     THEN TaskSave(task.db, [task.inst EXCEPT !.category = category_data])
     ELSE task

\* TaskSerializer.update
SerializerUpdate(d, instance, data) ==
  LET new_category == LoadCategory(d, Get(data, "category", 0))
      move == new_category.id # 0 /\ instance.category.id # new_category.id
      dec == IF move /\ instance.category.id # 0
             THEN DecrementUsage(d, instance.category)
             ELSE [db |-> d, inst |-> instance.category]
      inc == IF move THEN IncrementUsage(dec.db, new_category)
             ELSE [db |-> d, inst |-> instance.category]
  IN TaskSave(inc.db,
       [instance EXCEPT !.category = inc.inst,
                        !.title = Get(data, "title", @),
                        !.description = Get(data, "description", @),
                        !.deadline = Get(data, "deadline", @),
                        !.status = Get(data, "status", @)])

(***************************************************************************)
(* TaskViewSet and CategoryViewSet (tasks/api_view.py).  A handler gives   *)
(* the store it leaves and its response; an exception no handler catches   *)
(* is a 500 response, and what was saved before it stays saved (no         *)
(* transaction wraps a request).                                           *)
(***************************************************************************)
Response(status, n) == [kind |-> "response", status |-> status, requests |-> n]

Handled(d, r) == [db |-> d, result |-> r]

\* suggestions unless the caller refuses them
ApplyAiUnlessRefused(body) == Get(body, "apply_ai", TRUE)

\* request.data.get('apply_ai', False) as a condition; the body is JSON,
\* so the value is a boolean when present
ApplyAi(body) == Get(body, "apply_ai", FALSE)

\* category.increment_usage() on what get_or_create gave
Incremented(g) == IncrementUsage(g.db, g.inst)

\* the end of perform_create: task.category = category (when one was
\* suggested), is_ai_suggested = True, task.save()
PerformCreateSave(category, dated) ==
  Handled(TaskSave(category.db, [dated EXCEPT !.category = category.inst,
                                              !.is_ai_suggested = TRUE]).db,
          Response(201, 3))

\* perform_create from the categories on.  d: the store so far; dated: the
\* instance with its deadline set
PerformCreateCategories(d, dated, suggested_categories) ==
  IF suggested_categories.kind = "raise"
  THEN Handled(d, ServerError(suggested_categories.exc, <<>>, 3))
  ELSE PerformCreateSave(
         IF PyTruthy(suggested_categories.val)
         THEN Incremented(GetOrCreate(d, suggested_categories.val.v[1].v))
         ELSE [db |-> d, inst |-> dated.category],
         dated)

\* a deadline step that leaves the deadline of the instance as it was
PerformCreateDeadlineKept(scored, suggested_deadline, p) ==
  IF suggested_deadline.kind = "raise"
  THEN Handled(scored.db, ServerError(suggested_deadline.exc, <<>>, 2))
  ELSE PerformCreateCategories(scored.db, scored.inst,
                               SuggestCategoriesAndTags(p[3]))

\* perform_create from the deadline on.  scored: the store and the instance
\* after the priority step
PerformCreateDeadline(scored, suggested_deadline, p) ==
  IF suggested_deadline.kind = "raise"
  THEN Handled(scored.db, ServerError(suggested_deadline.exc, <<>>, 2))
  ELSE PerformCreateCategories(
         scored.db,
         IF PyTruthy(suggested_deadline.val)
         THEN [scored.inst EXCEPT !.deadline = suggested_deadline.val]
         ELSE scored.inst,
         SuggestCategoriesAndTags(p[3]))

\* perform_create from the priority score on.  task: the store and the
\* instance serializer.save() gave
PerformCreateScore(task, priority_score, now, p) ==
  IF priority_score.kind = "raise"
  THEN Handled(task.db, ServerError(priority_score.exc, <<>>, 1))
  ELSE PerformCreateDeadline(
         IF priority_score.val.t # "None"
         THEN SetAiPriority(task.db, task.inst, priority_score.val)
         ELSE task,
         SuggestDeadline(now.date, p[2]), p)

\* perform_create after serializer.save()
PerformCreateSaved(task, body, now, p) ==
  IF ~ApplyAi(body)
  THEN Handled(TaskSave(task.db,
                        [task.inst EXCEPT !.is_ai_suggested = FALSE]).db,
               Response(201, 0))
  ELSE PerformCreateScore(task, GetTaskPriorityScore(p[1]), now, p)

\* TaskViewSet.perform_create.  p: the outcomes of the three POSTs
PerformCreate(d, body, now, p) ==
  PerformCreateSaved(SerializerCreate(d, body, now), body, now, p)

\* perform_update from the deadline on
PerformUpdateDeadline(scored, suggested_deadline) ==
  IF suggested_deadline.kind = "raise"
  THEN Handled(scored.db, ServerError(suggested_deadline.exc, <<>>, 2))
  ELSE Handled(TaskSave(scored.db,
                        [scored.inst EXCEPT
                           !.deadline = IF PyTruthy(suggested_deadline.val)
                                        THEN suggested_deadline.val ELSE @,
                           !.is_ai_suggested = TRUE]).db,
               Response(200, 2))

\* perform_update from the priority score on
PerformUpdateScore(task, priority_score, now, p) ==
  IF priority_score.kind = "raise"
  THEN Handled(task.db, ServerError(priority_score.exc, <<>>, 1))
  ELSE PerformUpdateDeadline(
         IF priority_score.val.t # "None"
         THEN SetAiPriority(task.db, task.inst, priority_score.val)
         ELSE task,
         SuggestDeadline(now.date, p[2]))

\* perform_update after serializer.save()
PerformUpdateSaved(task, body, now, p) ==
  IF ~(ApplyAi(body) /\ ("title" \in DOMAIN body \/ "description" \in DOMAIN body))
  THEN Handled(task.db, Response(200, 0))
  ELSE PerformUpdateScore(task, GetTaskPriorityScore(p[1]), now, p)

\* TaskViewSet.perform_update on the task pk.  p: the outcomes of the POSTs
PerformUpdate(d, pk, body, now, p) ==
  PerformUpdateSaved(SerializerUpdate(d, LoadTask(d, pk), body), body, now, p)

\* DestroyModelMixin.destroy -> Task.delete
Destroy(d, pk) == Handled(TaskDelete(d, LoadTask(d, pk)), Response(204, 0))

\* TaskViewSet.set_priority; score: the JSON number of the body, or None
SetPriority(d, pk, score) ==
  IF score.t # "None"
  THEN Handled(SetAiPriority(d, LoadTask(d, pk), score).db, Response(200, 0))
  ELSE Handled(d, Response(400, 0))

\* TaskViewSet.assign_category_by_name
AssignCategoryByName(d, pk, category_name) ==
  IF category_name # <<>>
  THEN Handled(AssignCategory(d, LoadTask(d, pk), category_name).db,
               Response(200, 0))
  ELSE Handled(d, Response(400, 0))

\* TaskViewSet.batch_ai_prioritization from the entry i on.  An entry is a
\* JSON integer or a string that is not a number; p[i] is the outcome of
\* the POST for entry i; processed: the ids appended to processed_tasks;
\* n: the POSTs so far
RECURSIVE BatchFrom(_, _, _, _, _, _)

\* task.is_ai_suggested = True; task.save() on what set_ai_priority gave
MarkedAiSuggested(scored) ==
  TaskSave(scored.db, [scored.inst EXCEPT !.is_ai_suggested = TRUE])

\* the body of the loop from the priority score of entry i on
BatchScore(d, task_ids, p, i, processed, n, priority_score) ==
  IF priority_score.kind = "raise"
  THEN Handled(d, ServerError(priority_score.exc, processed, n + 1))
  ELSE IF priority_score.val.t # "None"
  THEN BatchFrom(MarkedAiSuggested(
                   SetAiPriority(d, LoadTask(d, task_ids[i].n),
                                 priority_score.val)).db,
                 task_ids, p, i + 1, Append(processed, task_ids[i].n), n + 1)
  ELSE BatchFrom(d, task_ids, p, i + 1, processed, n + 1)

BatchFrom(d, task_ids, p, i, processed, n) ==
  IF i > Len(task_ids)
  THEN Handled(d, [kind |-> "response", status |-> 200,
                   processed |-> processed, requests |-> n])
  ELSE
  LET task_id == task_ids[i] IN
  IF task_id.t = "str"                       \* Task.objects.get: ValueError
  THEN Handled(d, ServerError("ValueError", processed, n))
  ELSE IF task_id.n \notin DOMAIN d.tasks    \* Task.DoesNotExist: continue
  THEN BatchFrom(d, task_ids, p, i + 1, processed, n)
  ELSE
  BatchScore(d, task_ids, p, i, processed, n, GetTaskPriorityScore(p[i]))

BatchAiPrioritization(d, task_ids, p) == BatchFrom(d, task_ids, p, 1, <<>>, 0)

\* CategoryViewSet.increment_usage / decrement_usage on the category pk
ManualIncrementUsage(d, pk) ==
  Handled(IncrementUsage(d, LoadCategory(d, pk)).db, Response(200, 0))

ManualDecrementUsage(d, pk) ==
  Handled(DecrementUsage(d, LoadCategory(d, pk)).db, Response(200, 0))

\* CreateModelMixin.create of CategoryViewSet
CreateCategory(d, name) == Handled(CategoryCreate(d, name).db, Response(201, 0))

\* the response under the message of get_ai_suggestions
UnderOwnMessage(r) ==
  IF r.status = 200
  THEN [r EXCEPT !.data = ("message" :> "AI suggestions generated.") @@ @]
  ELSE r

\* TaskViewSet.get_ai_suggestions on the task pk: the response of the
\* new-task variant for the stored title and description, under its own
\* message
GetAiSuggestions(d, pk, today, p) ==
  UnderOwnMessage(NewTaskSuggestions(d.tasks[pk].title, d.tasks[pk].description,
                                     today, p))

(***************************************************************************)
(* ContextEntryViewSet (context/api_view.py).  An entry row holds content, *)
(* source_type and processed_insights; its timestamps are left out.        *)
(***************************************************************************)
\* the handler from the insights on.  saved: the store after
\* serializer.save(); ok: the status of the response
ContextAnalyzed(saved, pk, insights, ok) ==
  IF insights.kind = "raise"
  THEN Handled(saved, ServerError(insights.exc, <<>>, 1))
  ELSE IF PyTruthy(insights.val)
  THEN Handled([saved EXCEPT !.entries[pk].processed_insights = insights.val],
               Response(ok, 1))
  ELSE Handled(saved, Response(ok, 1))

\* the entry serializer.save() creates
NewEntry(body) ==
  [content |-> body["content"],
   source_type |-> Get(body, "source_type", "note"),
   processed_insights |-> PyNone]

\* ContextEntryViewSet.perform_create.  http: the outcome of the POST
ContextPerformCreate(d, body, http) ==
  ContextAnalyzed([d EXCEPT !.entries = Put(@, d.nextEntry, NewEntry(body)),
                            !.nextEntry = @ + 1],
                  d.nextEntry, AnalyzeContext(http), 201)

\* the store after serializer.save() updated the entry pk
EntryUpdated(d, pk, body) ==
  [d EXCEPT !.entries[pk].content = Get(body, "content", @),
            !.entries[pk].source_type = Get(body, "source_type", @)]

\* ContextEntryViewSet.perform_update on the entry pk
ContextPerformUpdate(d, pk, body, http) ==
  IF "content" \notin DOMAIN body
  THEN Handled(EntryUpdated(d, pk, body), Response(200, 0))
  ELSE ContextAnalyzed(EntryUpdated(d, pk, body), pk, AnalyzeContext(http), 200)

(***************************************************************************)
(* Inputs                                                                  *)
(***************************************************************************)
BuyGroceries ==
  <<"B", "u", "y", " ", "g", "r", "o", "c", "e", "r", "i", "e", "s">>

Titles == { BuyGroceries, <<"T">> }

Descriptions == { <<>>, <<"d">> }

\* values of timezone.now().date(), with a month end, a year end and the
\* days before 29 February of a leap and of a common year
RefDates ==
  { Date(2025, 7, 6), Date(2025, 12, 28), Date(2024, 2, 25), Date(2023, 2, 25) }

\* Pieces of the reply texts offered to get_task_priority_score
ScorePieces == { <<"1">>, <<"5">>, <<"0">>, <<".">>, <<"-">>, <<"x">>, <<" ">> }

\* Pieces of the reply texts offered to suggest_deadline
D20250710 == <<"2", "0", "2", "5", "-", "0", "7", "-", "1", "0">>
D20251345 == <<"2", "0", "2", "5", "-", "1", "3", "-", "4", "5">>
D20240229 == <<"2", "0", "2", "4", "-", "0", "2", "-", "2", "9">>
D20230229 == <<"2", "0", "2", "3", "-", "0", "2", "-", "2", "9">>

DatePieces ==
  { D20250710, D20251345, D20240229, D20230229, <<"1">>, <<"x">>, <<" ">> }

\* Pieces of the reply texts offered to suggest_categories_and_tags
Work == <<"W", "o", "r", "k">>
Home == <<"H", "o", "m", "e">>

TagPieces == { Work, Home, <<",">>, <<".">>, <<NL>>, <<" ">> }

\* Pieces of the reply texts offered to enhance_task_description
EnhancePieces == { <<"o", "k">>, <<"d">>, <<" ">>, <<NL>> }

\* Pieces of the reply texts offered to analyze_context
ObjectOpen == <<"{", Quote, "k", Quote, ":">>
NotJson == <<"n", "o", "t", " ", "j", "s", "o", "n">>

JsonPieces ==
  { ObjectOpen, <<"}">>, <<"[">>, <<"]">>, <<",">>, <<Quote>>, <<"1">>,
    <<"0">>, <<" ">>, NullWord, NotJson }

ContextTexts == { <<"c">>, <<>> }

\* Outcomes of the four POSTs of one suggestion request
TransportFailures == { HttpFailure("conn_error"), HttpFailure("http_error") }

EmptyChoices == HttpOk(Body(FALSE, TRUE, <<>>))

RequestScoreOutcomes ==
  TransportFailures \cup { EmptyChoices }
  \cup { GoodReply(c) : c \in { <<"8", "5">>, <<"6", "5">>, <<"3", "5">>, <<"x">> } }

RequestDeadlineOutcomes ==
  TransportFailures \cup { EmptyChoices }
  \cup { GoodReply(c) : c \in { D20250710, D20251345 } }

RequestCategoryOutcomes ==
  TransportFailures \cup { EmptyChoices }
  \cup { GoodReply(c) : c \in { Work \o <<",">> \o Home, <<".">> } }

RequestEnhanceOutcomes ==
  TransportFailures \cup { EmptyChoices }
  \cup { GoodReply(c) : c \in { <<"o", "k">>, <<>> } }

(***************************************************************************)
(* State machine.  The engine keeps no state between calls, so a behaviour *)
(* is one invocation: Init draws the invocation and what the provider will *)
(* answer, and the action of the invoked operation runs it.                *)
(***************************************************************************)
Pending == [kind |-> "pending"]

\* The invocation c is about to run against the provider outcomes p
Start(c, p) ==
  /\ call = c
  /\ provider = p
  /\ result = Pending
  /\ db = EmptyDb
  /\ procs = <<>>

Init ==
  \/ \E t \in Titles, d \in Descriptions,
        h \in HttpOutcomes(Texts(ScorePieces, MaxPieces)) :
       Start([op |-> "get_task_priority_score", title |-> t,
              description |-> d], <<h>>)
  \/ \E t \in Titles, d \in Descriptions, c \in RefDates,
        h \in HttpOutcomes(Texts(DatePieces, MaxPieces)) :
       Start([op |-> "suggest_deadline", title |-> t, description |-> d,
              current_date |-> c], <<h>>)
  \/ \E t \in Titles, d \in Descriptions,
        h \in HttpOutcomes(Texts(TagPieces, MaxPieces)) :
       Start([op |-> "suggest_categories_and_tags", title |-> t,
              description |-> d], <<h>>)
  \/ \E t \in Titles, d \in Descriptions,
        h \in HttpOutcomes(Texts(EnhancePieces, MaxPieces)) :
       Start([op |-> "enhance_task_description", title |-> t,
              description |-> d], <<h>>)
  \/ \E c \in ContextTexts, h \in HttpOutcomes(Texts(JsonPieces, MaxPieces)) :
       Start([op |-> "analyze_context", context_text |-> c], <<h>>)
  \/ \E h \in HttpOutcomes(Texts(EnhancePieces, MaxPieces)) :
       Start([op |-> "_extract_content"], <<h>>)
  \/ \E t \in Titles \cup { <<>> }, d \in Descriptions, c \in RefDates,
        p1 \in RequestScoreOutcomes, p2 \in RequestDeadlineOutcomes,
        p3 \in RequestCategoryOutcomes, p4 \in RequestEnhanceOutcomes :
       Start([op |-> "get_ai_suggestions_for_new_task", title |-> t,
              description |-> d, today |-> c], <<p1, p2, p3, p4>>)

Invoked(o) == result = Pending /\ call.op = o

CallGetTaskPriorityScore ==
  /\ Invoked("get_task_priority_score")
  /\ result' = GetTaskPriorityScore(provider[1])
  /\ UNCHANGED <<call, provider, db, procs>>

CallSuggestDeadline ==
  /\ Invoked("suggest_deadline")
  /\ result' = SuggestDeadline(call.current_date, provider[1])
  /\ UNCHANGED <<call, provider, db, procs>>

CallSuggestCategoriesAndTags ==
  /\ Invoked("suggest_categories_and_tags")
  /\ result' = SuggestCategoriesAndTags(provider[1])
  /\ UNCHANGED <<call, provider, db, procs>>

CallEnhanceTaskDescription ==
  /\ Invoked("enhance_task_description")
  /\ result' = EnhanceTaskDescription(call.description, provider[1])
  /\ UNCHANGED <<call, provider, db, procs>>

CallAnalyzeContext ==
  /\ Invoked("analyze_context")
  /\ result' = AnalyzeContext(provider[1])
  /\ UNCHANGED <<call, provider, db, procs>>

\* _extract_content applied to what _make_request returned
CallExtractContent ==
  /\ Invoked("_extract_content")
  /\ result' = ExtractContent(MakeRequest(provider[1]))
  /\ UNCHANGED <<call, provider, db, procs>>

PostGetAiSuggestionsForNewTask ==
  /\ Invoked("get_ai_suggestions_for_new_task")
  /\ result' = GetAiSuggestionsForNewTask(call.title, call.description,
                                          call.today, provider)
  /\ UNCHANGED <<call, provider, db, procs>>

Next ==
  \/ CallGetTaskPriorityScore
  \/ CallSuggestDeadline
  \/ CallSuggestCategoriesAndTags
  \/ CallEnhanceTaskDescription
  \/ CallExtractContent
  \/ CallAnalyzeContext
  \/ PostGetAiSuggestionsForNewTask

Spec == Init /\ [][Next]_vars

(***************************************************************************)
(* The store under a sequence of requests.  Each action is one request     *)
(* handled from start to end on the store the previous ones left; call and *)
(* result record the last request (its operation and the row it names)     *)
(* and its response.                                                       *)
(***************************************************************************)
\* at most MaxTasks tasks are ever created, and no request is taken that
\* would bring a usage_frequency above MaxUsage
MaxTasks == 1
MaxUsage == 2

\* timezone.now() of every request of a sequence
Now == PyDatetime(Date(2025, 7, 6), 9, 30, 0)

CategoryNames == { Work, Home }

\* what the provider answers to the POSTs of a create or update
StoreScoreOutcomes == { Unreachable, GoodReply(<<"8", "5">>) }
StoreDeadlineOutcomes == { Unreachable }
StoreCategoryOutcomes == { Unreachable, GoodReply(Work), GoodReply(Home) }

\* the `score` values of set-priority requests, as float(score) gives them
StoreScores ==
  { PyFloat(-5, 1), PyFloat(0, 1), PyFloat(2999, 100), PyFloat(30, 1),
    PyFloat(60, 1), PyFloat(80, 1), PyFloat(100, 1), PyFloat(150, 1) }

\* the bodies of create and update requests: category and apply_ai may be
\* absent, title is required on create only (PATCH on update)
OptionalField(k, V) == { <<>> } \cup { k :> v : v \in V }

CreateBodies(d) ==
  { ("title" :> <<"T">>) @@ c @@ a :
      c \in OptionalField("category", DOMAIN d.categories),
      a \in OptionalField("apply_ai", BOOLEAN) }

UpdateBodies(d) ==
  { t @@ c @@ a :
      t \in OptionalField("title", { <<"T">> }),
      c \in OptionalField("category", {0} \cup DOMAIN d.categories),
      a \in OptionalField("apply_ai", BOOLEAN) }

InitStore ==
  /\ call = [op |-> "none"]
  /\ provider = <<>>
  /\ result = Pending
  /\ db = EmptyDb
  /\ procs = <<>>

WithinUsage(d) ==
  \A c \in DOMAIN d.categories : d.categories[c].usage_frequency <= MaxUsage

\* one request c, answered by the provider with p, handled as h
Handle(c, p, h) ==
  /\ WithinUsage(h.db)
  /\ call' = c
  /\ provider' = <<>>
  /\ result' = Response(h.result.status, h.result.requests)
  /\ db' = h.db
  /\ UNCHANGED procs

PostCategory ==
  \E name \in CategoryNames :
    /\ \A c \in DOMAIN db.categories : db.categories[c].name # name
    /\ Handle([op |-> "create_category"], <<>>,
              CreateCategory(db, name))

PostTask ==
  /\ db.nextTask <= MaxTasks
  /\ \E body \in CreateBodies(db), p1 \in StoreScoreOutcomes,
        p2 \in StoreDeadlineOutcomes, p3 \in StoreCategoryOutcomes :
       LET p == IF ApplyAi(body) THEN <<p1, p2, p3>>
                ELSE <<Unreachable, Unreachable, Unreachable>>
       IN Handle([op |-> "perform_create"], p,
                 PerformCreate(db, body, Now, p))

PatchTask ==
  \E pk \in DOMAIN db.tasks, body \in UpdateBodies(db),
     p1 \in StoreScoreOutcomes, p2 \in StoreDeadlineOutcomes :
    LET p == IF ApplyAi(body) THEN <<p1, p2>>
             ELSE <<Unreachable, Unreachable>>
    IN Handle([op |-> "perform_update", pk |-> pk], p,
              PerformUpdate(db, pk, body, Now, p))

DeleteTask ==
  \E pk \in DOMAIN db.tasks :
    Handle([op |-> "destroy", pk |-> pk], <<>>, Destroy(db, pk))

PostAssignCategoryByName ==
  \E pk \in DOMAIN db.tasks, name \in CategoryNames :
    Handle([op |-> "assign_category_by_name", pk |-> pk],
           <<>>, AssignCategoryByName(db, pk, name))

PostSetPriority ==
  \E pk \in DOMAIN db.tasks, score \in StoreScores :
    Handle([op |-> "set_priority", pk |-> pk], <<>>,
           SetPriority(db, pk, score))

PostBatchAiPrioritization ==
  \E pk \in DOMAIN db.tasks, p1 \in StoreScoreOutcomes :
    Handle([op |-> "batch_ai_prioritization", pk |-> pk],
           <<p1>>, BatchAiPrioritization(db, <<PyInt(pk)>>, <<p1>>))

PostIncrementUsage ==
  \E pk \in DOMAIN db.categories :
    Handle([op |-> "increment_usage", pk |-> pk], <<>>,
           ManualIncrementUsage(db, pk))

PostDecrementUsage ==
  \E pk \in DOMAIN db.categories :
    Handle([op |-> "decrement_usage", pk |-> pk], <<>>,
           ManualDecrementUsage(db, pk))

\* the task operations that keep the usage counts by themselves
NextTasks ==
  \/ PostCategory
  \/ PostTask
  \/ PatchTask
  \/ DeleteTask
  \/ PostAssignCategoryByName

SpecTasks == InitStore /\ [][NextTasks]_vars

\* the same with the manual corrections of a count
NextStore ==
  \/ PostCategory
  \/ PostTask
  \/ PatchTask
  \/ DeleteTask
  \/ PostAssignCategoryByName
  \/ PostIncrementUsage
  \/ PostDecrementUsage

SpecStore == InitStore /\ [][NextStore]_vars

\* the requests that write a priority_score
NextScores ==
  \/ PostTask
  \/ PatchTask
  \/ PostSetPriority
  \/ PostBatchAiPrioritization

SpecScores == InitStore /\ [][NextScores]_vars


(***************************************************************************)
(* One request on a store that earlier requests have filled.  A behaviour *)
(* first handles the earlier requests, one after the other, then draws    *)
(* the request and what the provider will answer, and the action of the   *)
(* requested operation handles it.                                         *)
(***************************************************************************)
\* the longest task_ids list of a batch request
MaxBatch == 2

D20250801 == PyDatetime(Date(2025, 8, 1), 12, 0, 0)

JsonObject == ObjectOpen \o <<"1", "}">>

\* an earlier request r handled on the store d, the provider unreachable
\* unless r carries a reply
Earlier(d, r) ==
  CASE r.op = "create_category" -> CreateCategory(d, r.name)
    [] r.op = "increment_usage" -> ManualIncrementUsage(d, r.pk)
    [] r.op = "perform_create" ->
         PerformCreate(d, r.body, Now, <<Unreachable, Unreachable, Unreachable>>)
    [] r.op = "set_priority" -> SetPriority(d, r.pk, r.score)
    [] r.op = "context_perform_create" -> ContextPerformCreate(d, r.body, r.http)

\* the earlier requests that leave the categories Work (1) and Home (2),
\* the task 1 in Work with the default deadline, the task 2 without
\* category, with a deadline of its own and the score 50, the context
\* entry 1 with insights and the context entry 2 without
EarlierRequests ==
  << [op |-> "create_category", name |-> Work],
     [op |-> "create_category", name |-> Home],
     [op |-> "perform_create",
      body |-> ("title" :> BuyGroceries) @@ ("category" :> 1)],
     [op |-> "perform_create",
      body |-> ("title" :> <<"T">>) @@ ("description" :> <<"d">>)
               @@ ("deadline" :> D20250801)],
     [op |-> "set_priority", pk |-> 2, score |-> PyFloat(50, 1)],
     [op |-> "context_perform_create", body |-> "content" :> <<"c">>,
      http |-> GoodReply(JsonObject)],
     [op |-> "context_perform_create", body |-> "content" :> <<"n">>,
      http |-> Unreachable] >>

\* the earlier requests todo are still to be handled
Filling(todo) ==
  /\ call = [op |-> "earlier", todo |-> todo]
  /\ provider = <<>>
  /\ result = Pending
  /\ db = EmptyDb
  /\ procs = <<>>

\* the next earlier request is handled
Fill ==
  /\ call.op = "earlier"
  /\ call.todo # <<>>
  /\ db' = Earlier(db, Head(call.todo)).db
  /\ call' = [call EXCEPT !.todo = Tail(@)]
  /\ UNCHANGED <<provider, result, procs>>

\* the bodies of the task requests: every field but the title of a create
\* may be absent
TaskBodies(d, requiredTitle) ==
  { t @@ x @@ c @@ dl @@ a :
      t \in IF requiredTitle THEN { "title" :> <<"T">> }
            ELSE OptionalField("title", { <<"U">> }),
      x \in OptionalField("description", { <<"e">> }),
      c \in OptionalField("category", {0} \cup DOMAIN d.categories),
      dl \in OptionalField("deadline", { PyDatetime(Date(2025, 9, 1), 8, 0, 0) }),
      a \in OptionalField("apply_ai", BOOLEAN) }

\* the scores handed to Task.set_ai_priority: the band boundaries, their
\* neighbours and values outside 0..100
PriorityScores ==
  { PyFloat(-5, 1), PyFloat(0, 1), PyFloat(2999, 100), PyFloat(30, 1),
    PyFloat(5999, 100), PyFloat(60, 1), PyFloat(7999, 100), PyFloat(80, 1),
    PyFloat(100, 1), PyFloat(150, 1) }

\* the replies to the score request of the suggestion endpoints
DisplayScoreOutcomes ==
  { Unreachable, EmptyChoices }
  \cup { GoodReply(c) : c \in { <<"2", "9">>, <<"3", "0">>, <<"3", "9", ".", "9">>,
                               <<"4", "0">>, <<"6", "0">>, <<"6", "9", ".", "9">>,
                               <<"7", "0">>, <<"8", "0">>, <<"1", "0", "0">>,
                               <<"x">> } }

\* the replies to a POST of a create, an update or a batch entry
ScoreOutcomes ==
  { Unreachable, EmptyChoices, GoodReply(<<"8", "5">>), GoodReply(<<"x">>) }
DeadlineOutcomes == { Unreachable, EmptyChoices, GoodReply(D20250710) }
CategoryOutcomes ==
  { Unreachable, EmptyChoices, GoodReply(Work), GoodReply(<<"N", ",">> \o Home) }

\* the entries of task_ids: the stored tasks 1 and 2, a task that does not
\* exist, and a string that is not a number
BatchEntries == { PyInt(1), PyInt(2), PyInt(9), PyStr(<<"a">>) }

Lists(S, n) == UNION { [1..k -> S] : k \in 0..n }

\* the replies to the POST of a context create or update
InsightOutcomes ==
  { Unreachable, EmptyChoices }
  \cup { GoodReply(c) : c \in { <<"{", "}">>, JsonObject, NotJson, NullWord,
                               <<"[", "1", "]">>, <<"0">> } }

ContextBodies ==
  { c @@ s : c \in OptionalField("content", { <<"m">> }),
             s \in OptionalField("source_type", { "email" }) }

\* the request c arrives, to be answered by the provider with p
Arrives(c, p) ==
  /\ call' = c
  /\ provider' = p
  /\ UNCHANGED <<result, db, procs>>

InitRequest == Filling(<<>>) \/ Filling(EarlierRequests)

Receive ==
  /\ call.op = "earlier"
  /\ call.todo = <<>>
  /\ \/ \E body \in TaskBodies(db, TRUE), p1 \in ScoreOutcomes,
           p2 \in DeadlineOutcomes, p3 \in CategoryOutcomes :
          Arrives([op |-> "perform_create", body |-> body], <<p1, p2, p3>>)
     \/ \E pk \in DOMAIN db.tasks, body \in TaskBodies(db, FALSE),
           p1 \in ScoreOutcomes, p2 \in DeadlineOutcomes :
          Arrives([op |-> "perform_update", pk |-> pk, body |-> body],
                  <<p1, p2>>)
     \/ \E pk \in DOMAIN db.tasks, score \in PriorityScores :
          Arrives([op |-> "set_ai_priority", pk |-> pk, score |-> score], <<>>)
     \/ \E pk \in DOMAIN db.tasks, score \in PriorityScores \cup { PyNone } :
          Arrives([op |-> "set_priority", pk |-> pk, score |-> score], <<>>)
     \/ \E pk \in DOMAIN db.tasks, c \in RefDates,
           p1 \in DisplayScoreOutcomes, p2 \in DeadlineOutcomes,
           p3 \in CategoryOutcomes, p4 \in RequestEnhanceOutcomes :
          Arrives([op |-> "get_ai_suggestions", pk |-> pk, today |-> c],
                  <<p1, p2, p3, p4>>)
     \/ \E t \in { <<"T">>, <<>> }, c \in RefDates,
           p1 \in DisplayScoreOutcomes, p2 \in DeadlineOutcomes,
           p3 \in CategoryOutcomes, p4 \in RequestEnhanceOutcomes :
          Arrives([op |-> "get_ai_suggestions_for_new_task", title |-> t,
                   description |-> <<"d">>, today |-> c], <<p1, p2, p3, p4>>)
     \/ \E task_ids \in Lists(BatchEntries, MaxBatch) :
          \E p \in [1..Len(task_ids) -> ScoreOutcomes] :
            Arrives([op |-> "batch_ai_prioritization", task_ids |-> task_ids], p)
     \/ \E body \in ContextBodies, h \in InsightOutcomes :
          /\ "content" \in DOMAIN body
          /\ Arrives([op |-> "context_perform_create", body |-> body], <<h>>)
     \/ \E pk \in DOMAIN db.entries, body \in ContextBodies,
           h \in InsightOutcomes :
          Arrives([op |-> "context_perform_update", pk |-> pk, body |-> body],
                  <<h>>)

\* the requested operation has handled the request as h
Handles(o, h) ==
  /\ Invoked(o)
  /\ db' = h.db
  /\ result' = h.result
  /\ UNCHANGED <<call, provider, procs>>

RequestPerformCreate ==
  /\ Invoked("perform_create")
  /\ Handles("perform_create", PerformCreate(db, call.body, Now, provider))

RequestPerformUpdate ==
  /\ Invoked("perform_update")
  /\ Handles("perform_update",
             PerformUpdate(db, call.pk, call.body, Now, provider))

CallSetAiPriority ==
  /\ Invoked("set_ai_priority")
  /\ Handles("set_ai_priority",
             Handled(SetAiPriority(db, LoadTask(db, call.pk), call.score).db,
                     Return(PyNone)))

RequestSetPriority ==
  /\ Invoked("set_priority")
  /\ Handles("set_priority", SetPriority(db, call.pk, call.score))

RequestGetAiSuggestions ==
  /\ Invoked("get_ai_suggestions")
  /\ Handles("get_ai_suggestions",
             Handled(db, GetAiSuggestions(db, call.pk, call.today, provider)))

RequestBatchAiPrioritization ==
  /\ Invoked("batch_ai_prioritization")
  /\ Handles("batch_ai_prioritization",
             BatchAiPrioritization(db, call.task_ids, provider))

RequestContextPerformCreate ==
  /\ Invoked("context_perform_create")
  /\ Handles("context_perform_create",
             ContextPerformCreate(db, call.body, provider[1]))

RequestContextPerformUpdate ==
  /\ Invoked("context_perform_update")
  /\ Handles("context_perform_update",
             ContextPerformUpdate(db, call.pk, call.body, provider[1]))

NextRequest ==
  \/ Fill
  \/ Receive
  \/ RequestPerformCreate
  \/ RequestPerformUpdate
  \/ CallSetAiPriority
  \/ RequestSetPriority
  \/ RequestGetAiSuggestions
  \/ PostGetAiSuggestionsForNewTask
  \/ RequestBatchAiPrioritization
  \/ RequestContextPerformCreate
  \/ RequestContextPerformUpdate

SpecRequest == InitRequest /\ [][NextRequest]_vars

(***************************************************************************)
(* Two assign-category-by-name requests served at the same time, one for   *)
(* each of two tasks, both naming the same category.  No transaction and   *)
(* no lock serialises them: a request is a sequence of queries, and the    *)
(* queries of the two interleave in every order.                           *)
(***************************************************************************)
Racers == { 1, 2 }

\* the earlier requests that leave the category `name` at the count n
\* and the tasks 1 and 2 without category
RaceEarlierRequests(name, n) ==
  << [op |-> "create_category", name |-> name] >>
  \o [k \in 1..n |-> [op |-> "increment_usage", pk |-> 1]]
  \o << [op |-> "perform_create", body |-> "title" :> <<"T">>],
        [op |-> "perform_create", body |-> "title" :> BuyGroceries] >>

InitRace ==
  \E name \in CategoryNames, n \in 0..MaxUsage :
    Filling(RaceEarlierRequests(name, n))

\* the two requests arrive
RaceReceive ==
  /\ call.op = "earlier"
  /\ call.todo = <<>>
  /\ call' = [op |-> "assign_category_by_name",
              category_name |-> db.categories[1].name,
              usage |-> db.categories[1].usage_frequency]
  /\ procs' = [p \in Racers |-> [pc |-> "get_object"]]
  /\ UNCHANGED <<provider, result, db>>

At(p, pc) == p \in DOMAIN procs /\ procs[p].pc = pc

Goto(p, pc, task) == procs' = [procs EXCEPT ![p] = [pc |-> pc, task |-> task]]

\* task = self.get_object()
RaceGetObject(p) ==
  /\ At(p, "get_object")
  /\ Goto(p, "get_or_create", LoadTask(db, p))
  /\ UNCHANGED <<call, provider, result, db>>

\* Task.assign_category: get_or_create and the assignment to self.category
RaceGetOrCreate(p) ==
  /\ At(p, "get_or_create")
  /\ LET g == GetOrCreate(db, call.category_name) IN
     /\ db' = g.db
     /\ Goto(p, "save", [procs[p].task EXCEPT !.category = g.inst])
  /\ UNCHANGED <<call, provider, result>>

\* Task.save up to super().save(): the counts of the categories
RaceSaveUsage(p) ==
  /\ At(p, "save")
  /\ LET s == TaskSave(db, procs[p].task) IN
     /\ db' = [s.db EXCEPT !.tasks = db.tasks]
     /\ Goto(p, "super_save", s.inst)
  /\ UNCHANGED <<call, provider, result>>

\* super().save() of Task.save: the row of the task
RaceSaveTask(p) ==
  /\ At(p, "super_save")
  /\ db' = [db EXCEPT !.tasks = Put(@, p, TaskRow(procs[p].task))]
  /\ Goto(p, "done", procs[p].task)
  /\ UNCHANGED <<call, provider, result>>

NextRace ==
  \/ Fill
  \/ RaceReceive
  \/ \E p \in Racers : RaceGetObject(p)
  \/ \E p \in Racers : RaceGetOrCreate(p)
  \/ \E p \in Racers : RaceSaveUsage(p)
  \/ \E p \in Racers : RaceSaveTask(p)

SpecRace == InitRace /\ [][NextRace]_vars

(***************************************************************************)
(* Vocabulary of the claims                                                *)
(***************************************************************************)
\* the invocation of operation o has run
Done(o) == call.op = o /\ result.kind # "pending"

\* no reply reached the engine: connection error or status outside 2xx
TransportFailed(h) == h.status # "ok"

\* a 2xx body without the key choices or with an empty choices array
NoChoices(h) ==
  h.status = "ok" /\ (~h.body.hasChoices \/ h.body.choices = <<>>)

\* a 2xx body of the expected shape
WellFormed(h) ==
  /\ h.status = "ok" /\ h.body.hasChoices /\ h.body.choices # <<>>
  /\ h.body.choices[1].hasMessage /\ h.body.choices[1].hasContent

\* raw_text of a well-formed reply: the trimmed content of the first choice
RawText(h) == Strip(h.body.choices[1].content)

\* numeric equality of two numbers
NumEq(a, b) == a.n * b.d = b.n * a.d

Returned(v) == result.kind = "return" /\ result.val = v

(***************************************************************************)
(* C1  get_task_priority_score                                             *)
(***************************************************************************)
\* the number the reply text states first, with its sign, clamped to
\* [0, 100]: negative gives 0, above 100 gives 100
StatedScore(s) ==
  LET m == FirstNumber(s)
      v == ToFloat(SubSeq(s, m[1], m[2]))
  IN IF m[1] > 1 /\ s[m[1] - 1] = "-" THEN PyFloat(0, 1)
     ELSE IF NumLess(PyInt(100), v) THEN PyFloat(100, 1)
     ELSE v

\* C1: for every reply text that contains a numeric substring,
\* get_task_priority_score returns the first number found clamped to
\* [0, 100]; a value above 100 yields 100.0, a negative value yields 0.0,
\* and the result is never outside [0, 100].
C1_FirstNumberClamped ==
  (Done("get_task_priority_score") /\ WellFormed(provider[1])
   /\ \E i \in 1..Len(RawText(provider[1])) : RawText(provider[1])[i] \in Digits)
  => /\ result.kind = "return"
     /\ result.val.t \in {"int", "float"}
     /\ NumEq(result.val, StatedScore(RawText(provider[1])))
     /\ NumGeq(result.val, PyInt(0))
     /\ NumGeq(PyInt(100), result.val)

(***************************************************************************)
(* C2  get_task_priority_score on malformed or absent replies              *)
(***************************************************************************)
\* C2: for every malformed or absent provider reply (transport error,
\* non-2xx status, a body without a non-empty choices array, or reply text
\* without digits) get_task_priority_score returns exactly 0.0 and raises
\* nothing.
C2_MalformedReplyScoresZero ==
  (Done("get_task_priority_score")
   /\ \/ TransportFailed(provider[1])
      \/ NoChoices(provider[1])
      \/ /\ WellFormed(provider[1])
         /\ \A i \in 1..Len(RawText(provider[1])) :
              RawText(provider[1])[i] \notin Digits)
  => Returned(PyFloat(0, 1))

(***************************************************************************)
(* C3  malformed reply shape against transport failure                     *)
(***************************************************************************)
\* what each operation returns when the provider cannot be reached
UnreachableResult ==
  CASE call.op = "analyze_context" -> Return(PyNone)
    [] call.op = "suggest_deadline" ->
         Return(DayStart(AddDays(call.current_date, 7)))
    [] call.op = "suggest_categories_and_tags" -> Return(PyList(<<>>))
    [] call.op = "enhance_task_description" ->
         Return(PyStr(call.description))

\* C3: for analyze_context, suggest_deadline, suggest_categories_and_tags
\* and enhance_task_description a 2xx reply without the key choices or
\* with an empty choices array gives the result of an unreachable provider
\* (absence, reference date + 7 days, empty list, the original
\* description) and no exception reaches the caller.
C3_MalformedShapeAsTransportFailure ==
  (/\ call.op \in {"analyze_context", "suggest_deadline",
                   "suggest_categories_and_tags", "enhance_task_description"}
   /\ result.kind # "pending"
   /\ NoChoices(provider[1]))
  => result = UnreachableResult

(***************************************************************************)
(* C4  _extract_content                                                    *)
(***************************************************************************)
\* C4: content extraction yields the trimmed content of the first choice
\* when the body has a non-empty choices array, and for every other
\* structural deviation of a 2xx body (no choices key, empty choices, first
\* choice without message or without content) it yields absence and does
\* not raise.
C4_ExtractionNeverRaises ==
  Done("_extract_content")
  => IF WellFormed(provider[1])
     THEN Returned(PyStr(RawText(provider[1])))
     ELSE Returned(PyNone)

(***************************************************************************)
(* C5  suggest_deadline on a reply with a date                             *)
(***************************************************************************)
\* the positions of s where a valid YYYY-MM-DD calendar date starts
ValidDateStarts(s) ==
  { i \in 1..Len(s) : DatePatternAt(s, i) /\ Strptime(SubSeq(s, i, i + 9)).ok }

\* the position of the leftmost dddd-dd-dd substring of s, or 0
LeftmostPattern(s) ==
  IF \E i \in 1..Len(s) : DatePatternAt(s, i)
  THEN CHOOSE i \in 1..Len(s) :
         DatePatternAt(s, i) /\ \A j \in 1..(i - 1) : ~DatePatternAt(s, j)
  ELSE 0

\* C5 as stated: for every reply text containing a valid YYYY-MM-DD
\* substring, suggest_deadline returns exactly that date at the start of
\* the day, also when an earlier substring matches the digit pattern
\* without being a valid date.
C5_AnyValidDateReturned ==
  (Done("suggest_deadline") /\ WellFormed(provider[1])
   /\ ValidDateStarts(RawText(provider[1])) # {})
  => \E i \in ValidDateStarts(RawText(provider[1])) :
       Returned(DayStart(Strptime(SubSeq(RawText(provider[1]), i, i + 9)).date))

\* C5 amended: when the leftmost dddd-dd-dd substring of the reply text is
\* a valid calendar date, suggest_deadline returns exactly that date at the
\* start of the day; when the leftmost one is not a valid date, no later
\* date is used and the result is the reference date + 7 days.
C5_LeftmostValidDateReturned ==
  (Done("suggest_deadline") /\ WellFormed(provider[1])
   /\ LeftmostPattern(RawText(provider[1])) # 0)
  => LET s == RawText(provider[1])
         i == LeftmostPattern(s)
         p == Strptime(SubSeq(s, i, i + 9))
     IN IF p.ok
        THEN Returned(PyDatetime(p.date, 0, 0, 0))
        ELSE Returned(PyDatetime(AddDays(call.current_date, 7), 0, 0, 0))

\* a reply with text before a valid date and a second, different valid date
\* after it has been answered with the first date
C5_Witness ==
  /\ Done("suggest_deadline")
  /\ WellFormed(provider[1])
  /\ LeftmostPattern(RawText(provider[1])) > 1
  /\ Cardinality(ValidDateStarts(RawText(provider[1]))) = 2
  /\ Returned(DayStart(Date(2024, 2, 29)))
  /\ 12 \in ValidDateStarts(RawText(provider[1]))

(***************************************************************************)
(* C6  suggest_deadline always produces a date                             *)
(***************************************************************************)
\* C6: suggest_deadline always returns a date and never signals absence;
\* on transport failure, on a reply with no dddd-dd-dd match, or when the
\* first match is not a parsable calendar date, the result is exactly the
\* reference date + 7 calendar days at the start of the day.
C6_DeadlineAlwaysADate ==
  Done("suggest_deadline")
  => /\ result.kind = "return"
     /\ result.val.t = "datetime"
     /\ (\/ TransportFailed(provider[1])
         \/ /\ WellFormed(provider[1])
            /\ LET s == RawText(provider[1]) IN
               \/ LeftmostPattern(s) = 0
               \/ ~Strptime(SubSeq(s, LeftmostPattern(s),
                                   LeftmostPattern(s) + 9)).ok)
        => Returned(DayStart(AddDays(call.current_date, 7)))

(***************************************************************************)
(* C7  suggest_categories_and_tags                                         *)
(***************************************************************************)
\* the tag a finished piece contributes: its trimmed text unless empty
TagOf(piece) ==
  IF Strip(piece) # <<>> THEN <<PyStr(Strip(piece))>> ELSE <<>>

\* the tags of s read left to right: a character of seps ends the current
\* piece, a character of dropped is skipped, any other joins the piece
RECURSIVE TagsOf(_, _, _, _)
TagsOf(s, seps, dropped, piece) ==
  IF s = <<>> THEN TagOf(piece)
  ELSE IF s[1] \in seps
       THEN TagOf(piece) \o TagsOf(Tail(s), seps, dropped, <<>>)
  ELSE IF s[1] \in dropped THEN TagsOf(Tail(s), seps, dropped, piece)
  ELSE TagsOf(Tail(s), seps, dropped, Append(piece, s[1]))

C8_EnhanceAlwaysAString ==
  Done("enhance_task_description")
  => /\ result.kind = "return"
     /\ result.val.t = "str"
     /\ (TransportFailed(provider[1]) \/ NoChoices(provider[1]))
        => Returned(PyStr(call.description))

(***************************************************************************)
(* C9  analyze_context                                                     *)
(***************************************************************************)
\* C9: analyze_context has exactly three outcomes: a reply that parses as
\* JSON is returned as the parsed value; a reply that is not valid JSON
\* yields {error: 'AI response format error', raw_response: <raw text>};
\* a failed provider call yields absence.
C9_AnalyzeThreeOutcomes ==
  Done("analyze_context")
  => IF WellFormed(provider[1])
     THEN LET parsed == JsonLoads(RawText(provider[1])) IN
          IF parsed.ok THEN Returned(parsed.val)
          ELSE Returned(FormatError(RawText(provider[1])))
     ELSE Returned(PyNone)

(***************************************************************************)
(* C10  the four suggestions of one request, provider unreachable          *)
(***************************************************************************)
AllUnreachable == \A k \in 1..Len(provider) : provider[k] = Unreachable

IsoText20250713 ==
  <<"2", "0", "2", "5", "-", "0", "7", "-", "1", "3", "T",
    "0", "0", ":", "0", "0", ":", "0", "0">>

\* C10: when the provider is unreachable on every call, the four
\* suggestion operations of one request (priority, deadline, categories,
\* enhancement) all run: the request issues four POSTs and answers 200 with
\* score 0.0, deadline = today + 7 days at day start, categories [] and the
\* description as given; for title 'Buy groceries', description '' and
\* date 2025-07-06 the deadline is 2025-07-13 and the description ''.
C10_UnreachableProviderDefaults ==
  (Done("get_ai_suggestions_for_new_task") /\ call.title # <<>>
   /\ AllUnreachable)
  => /\ result.status = 200
     /\ result.requests = 4
     /\ result.locals.priority_score = PyFloat(0, 1)
     /\ result.locals.suggested_deadline.t = "datetime"
     /\ result.locals.suggested_deadline.date = AddDays(call.today, 7)
     /\ result.locals.suggested_deadline.h = 0
     /\ result.locals.suggested_deadline.mi = 0
     /\ result.locals.suggested_deadline.s = 0
     /\ result.locals.suggested_categories = PyList(<<>>)
     /\ result.locals.enhanced_description = PyStr(call.description)
     /\ result.data.suggested_priority_score = PyFloat(0, 1)
     /\ (call.title = BuyGroceries /\ call.description = <<>>
         /\ call.today = Date(2025, 7, 6))
        => /\ result.locals.suggested_deadline.date = Date(2025, 7, 13)
           /\ result.data.suggested_deadline = PyStr(IsoText20250713)
           /\ result.locals.enhanced_description = PyStr(<<>>)

\* the request of the scenario has been answered while the provider was
\* unreachable on all four calls
C10_Witness ==
  /\ Done("get_ai_suggestions_for_new_task")
  /\ call.title = BuyGroceries
  /\ call.description = <<>>
  /\ call.today = Date(2025, 7, 6)
  /\ Len(provider) = 4
  /\ AllUnreachable
  /\ result.status = 200
  /\ result.locals.suggested_deadline = DayStart(Date(2025, 7, 13))


(***************************************************************************)
(* Claims about one request (SpecRequest)                                  *)
(***************************************************************************)
\* the entry i of the batch request names a stored task
NamesTask(i) ==
  call.task_ids[i].t = "int" /\ call.task_ids[i].n \in DOMAIN db.tasks

\* C11: a batch-ai-prioritization request always completes: whatever
\* happens for one entry (no such task, an id that is no number, a provider
\* failure), the response is the 200 with the processed tasks, every entry
\* naming a stored task has that task marked as AI-processed, and the
\* reported tasks are as many as those entries.
C11_BatchEntriesIndependent ==
  Done("batch_ai_prioritization") =>
    /\ result.status = 200
    /\ \A i \in 1..Len(call.task_ids) :
         NamesTask(i) => db.tasks[call.task_ids[i].n].is_ai_suggested
    /\ Len(result.processed)
         = Cardinality({ i \in 1..Len(call.task_ids) : NamesTask(i) })

\* a <= s < b for numbers
InBand(s, a, b) == NumGeq(s, PyInt(a)) /\ NumLess(s, PyInt(b))

\* C12: Task.set_ai_priority(score) stores the score and the label of its
\* band: 'urgent' from 80, 'high' in [60, 80), 'medium' in [30, 60), 'low'
\* below 30, for scores inside and outside 0..100.
C12_PersistedLabelByBands ==
  Done("set_ai_priority") =>
    LET row == db.tasks[call.pk]
        score == call.score
    IN /\ NumEq(row.priority_score, score)
       /\ NumGeq(score, PyInt(80)) => row.priority = "urgent"
       /\ InBand(score, 60, 80) => row.priority = "high"
       /\ InBand(score, 30, 60) => row.priority = "medium"
       /\ NumLess(score, PyInt(30)) => row.priority = "low"

\* the boundary score 80 was stored with the label of the upper band
C12_Witness ==
  /\ Done("set_ai_priority")
  /\ call.score = PyFloat(80, 1)
  /\ db.tasks[call.pk].priority = "urgent"
  /\ db.tasks[call.pk].priority_score = Decimal(80, 1)

\* C13: a suggestion response of get-ai-suggestions or of
\* get-ai-suggestions-for-new-task labels its score 'high' from 70,
\* 'medium' in [40, 70) and 'low' below 40, never 'urgent'; for scores in
\* [30, 40), [60, 70) and [80, 100] that label is not the one
\* set_ai_priority persists.
C13_DisplayLabelByOwnBands ==
  ((Done("get_ai_suggestions") \/ Done("get_ai_suggestions_for_new_task"))
   /\ result.status = 200)
  => LET score == result.data["suggested_priority_score"]
         label == result.data["suggested_priority"]
     IN /\ NumGeq(score, PyInt(70)) => label = "high"
        /\ InBand(score, 40, 70) => label = "medium"
        /\ NumLess(score, PyInt(40)) => label = "low"
        /\ label # "urgent"
        /\ (InBand(score, 30, 40) \/ InBand(score, 60, 70)
            \/ InBand(score, 80, 101))
             => label # PersistedPriority(score)

\* a stored task was suggested the score 80, displayed as 'high'
C13_Witness ==
  /\ Done("get_ai_suggestions")
  /\ result.status = 200
  /\ result.data["suggested_priority_score"] = PyFloat(80, 1)
  /\ result.data["suggested_priority"] = "high"
  /\ PersistedPriority(PyFloat(80, 1)) = "urgent"

\* the caller of the request opted in
OptedIn == "apply_ai" \in DOMAIN call.body /\ call.body["apply_ai"]

\* title or description is among the submitted fields
TextSubmitted == "title" \in DOMAIN call.body \/ "description" \in DOMAIN call.body

C15_NewTaskSuggestionsSaveNothing ==
  [][ Invoked("get_ai_suggestions_for_new_task") =>
        /\ db' = db
        /\ call.title = <<>> => (result'.status = 400 /\ result'.requests = 0)
    ]_vars

\* suggestions were produced for a new task on a store holding tasks and
\* categories
C15_Witness ==
  /\ Done("get_ai_suggestions_for_new_task")
  /\ result.status = 200 /\ result.requests = 4
  /\ DOMAIN db.tasks # {} /\ DOMAIN db.categories # {}

\* C17: a context create runs the analysis once, a context update runs it
\* once when content is submitted and not otherwise; processed_insights
\* changes only to the non-empty value a reply of the expected shape
\* parses to (or to its parse-error object); and when the provider call
\* fails (no reply, or a reply of another shape) the entry keeps its
\* insights and the request succeeds.
C17_InsightsOnlyFromAnalysis ==
  [][ (Invoked("context_perform_create") \/ Invoked("context_perform_update"))
      => LET create == call.op = "context_perform_create"
             pk == IF create THEN db.nextEntry ELSE call.pk
             before == IF create THEN PyNone
                       ELSE db.entries[pk].processed_insights
             after == db'.entries[pk].processed_insights
             analysed == create \/ "content" \in DOMAIN call.body
             h == provider[1]
         IN /\ result'.requests = IF analysed THEN 1 ELSE 0
            /\ after # before =>
                 /\ analysed /\ WellFormed(h)
                 /\ LET parsed == JsonLoads(RawText(h)) IN
                    after = IF parsed.ok THEN parsed.val
                            ELSE FormatError(RawText(h))
                 /\ PyTruthy(after)
            /\ (analysed /\ ~WellFormed(h)) =>
                 (after = before /\ result'.status \in {200, 201}) ]_vars

\* every POST of the request fails to reach the provider
ProviderUnreachable == \A i \in DOMAIN provider : provider[i] = Unreachable

\* the entries of the batch request before the entry i are ids
ReachesEntry(i) == \A j \in 1..(i - 1) : call.task_ids[j].t = "int"

Usage(d, c) == d.categories[c].usage_frequency

\* the tasks of the store d assigned to the category c
AssignedTo(d, c) == { t \in DOMAIN d.tasks : d.tasks[t].category = c }

\* C16: under every sequence of task creates, updates, category
\* assignments, deletes and manual increment-usage / decrement-usage
\* requests, no request leaves a usage_frequency below zero, and a manual
\* decrement-usage of a category whose count is 0 leaves it at 0.
C16_UsageNeverBelowZero ==
  [][ /\ \A c \in DOMAIN db'.categories : Usage(db', c) >= 0
      /\ (call'.op = "decrement_usage" /\ Usage(db, call'.pk) = 0)
           => Usage(db', call'.pk) = 0 ]_vars

\* a manual decrement has brought a count to 0 while a task is still
\* assigned to the category: every later decrement of it (by a request or
\* by the delete or the reassignment of that task) finds the count at 0
C16_Witness ==
  /\ call.op = "decrement_usage"
  /\ Usage(db, call.pk) = 0
  /\ AssignedTo(db, call.pk) # {}

\* C18: with the manual increment-usage / decrement-usage requests
\* excluded, after every sequence of task operations each category's
\* usage_frequency equals the number of tasks assigned to it.
C18_UsageCountsAssignedTasks ==
  \A c \in DOMAIN db.categories : Usage(db, c) = Cardinality(AssignedTo(db, c))

\* C20: every stored priority_score lies in [0, 100] after every sequence
\* of create, update, batch-ai-prioritization and set-priority requests.
C20_StoredScoreWithinRange ==
  \A t \in DOMAIN db.tasks :
    /\ NumGeq(db.tasks[t].priority_score, PyInt(MinScore))
    /\ NumGeq(PyInt(MaxScore), db.tasks[t].priority_score)

(***************************************************************************)
(* Claims about concurrent requests (SpecRace)                             *)
(***************************************************************************)
\* C19: when the two requests that assign the same category to two tasks
\* have both completed, the category's usage_frequency is its count from
\* before them plus two, in whatever order their queries interleaved.
C19_NoLostUpdate ==
  (\A p \in Racers : At(p, "done"))
  => \A c \in DOMAIN db.categories : Usage(db, c) = call.usage + 2

====
